---- MODULE Spec2Model ----
(***************************************************************************)
(* pr-digest: the aggregation / dedup / classification / render pipeline   *)
(* of .github/workflows/pr-digest.js, as a state machine.                  *)
(*                                                                         *)
(* Strings are sequences of one-character strings, so that trim, split,    *)
(* the locator pattern and the lexicographic sort are computed and not     *)
(* assumed.  A falsy value (null, undefined, "", 0) is the empty sequence  *)
(* or 0: the code reads every one of them through `x || ""`, `!x`.         *)
(***************************************************************************)
EXTENDS Integers, Sequences, FiniteSets, TLC

(***************************************************************************)
(* Bounds of the model.                                                    *)
(***************************************************************************)
MaxPages == 2
MaxCap == 2
MaxTicks == 1

(***************************************************************************)
(* Program constants.                                                      *)
(***************************************************************************)
DefaultMaxPrsPerRepo == 25
DefaultMaxTotalPrs == 200
DefaultMaxSearchResultsPerUser == 500
MsPerDay == 86400000
NotFound == 404

(***************************************************************************)
(* String helpers                                                          *)
(***************************************************************************)
\* what String.prototype.trim strips: tab, line feed, vertical tab, form
\* feed, carriage return, space, no-break space (U+00A0), ogham space mark
\* (U+1680) and the byte order mark (U+FEFF). It also strips U+2000 to
\* U+200A, U+2028, U+2029, U+202F, U+205F and U+3000, which a string of this
\* module cannot hold and which are therefore outside the model's alphabet
WhiteSpace ==
  {"\t", "\n", "", "\f", "\r", " ", " ", " ", "﻿"}

RECURSIVE TrimStart(_)
TrimStart(s) ==
  IF s # <<>> /\ Head(s) \in WhiteSpace THEN TrimStart(Tail(s)) ELSE s

RECURSIVE TrimEnd(_)
TrimEnd(s) ==
  IF s # <<>> /\ s[Len(s)] \in WhiteSpace
  THEN TrimEnd(SubSeq(s, 1, Len(s) - 1))
  ELSE s

\* String.prototype.trim
Trim(s) == TrimEnd(TrimStart(s))

\* String.prototype.split("/"): the segments between slashes; "" gives <<"">>
RECURSIVE Split(_)
Split(s) ==
  IF \E i \in 1..Len(s) : s[i] = "/"
  THEN LET i == CHOOSE k \in 1..Len(s) :
                  s[k] = "/" /\ \A j \in 1..(k - 1) : s[j] # "/"
       IN  <<SubSeq(s, 1, i - 1)>> \o Split(SubSeq(s, i + 1, Len(s)))
  ELSE <<s>>

\* parts[i] of an array: undefined (read as the falsy empty string) past the end
Part(parts, i) == IF i <= Len(parts) THEN parts[i] ELSE <<>>

\* UTF-16 code unit of the characters the model uses
Code(c) ==
  CASE c = "\t" -> 9
    [] c = "\n" -> 10
    [] c = "" -> 11
    [] c = "\f" -> 12
    [] c = "\r" -> 13
    [] c = " " -> 32
    [] c = "/" -> 47
    [] c = "0" -> 48
    [] c = "1" -> 49
    [] c = "2" -> 50
    [] c = "3" -> 51
    [] c = "4" -> 52
    [] c = "5" -> 53
    [] c = "6" -> 54
    [] c = "7" -> 55
    [] c = "8" -> 56
    [] c = "9" -> 57
    [] c = "@" -> 64
    [] c = "A" -> 65
    [] c = "a" -> 97
    [] c = "b" -> 98
    [] c = "c" -> 99
    [] c = "e" -> 101
    [] c = "i" -> 105
    [] c = "o" -> 111
    [] c = "p" -> 112
    [] c = "r" -> 114
    [] c = "s" -> 115
    [] c = "u" -> 117
    [] c = "x" -> 120
    [] c = " " -> 160
    [] c = " " -> 5760
    [] c = "﻿" -> 65279

\* a < b in the order Array.prototype.sort() uses without a comparator
RECURSIVE StrLess(_, _)
StrLess(a, b) ==
  IF b = <<>> THEN FALSE
  ELSE IF a = <<>> THEN TRUE
  ELSE IF Head(a) = Head(b) THEN StrLess(Tail(a), Tail(b))
  ELSE Code(Head(a)) < Code(Head(b))

\* the characters \\d of line 121 matches
Digits == {"0", "1", "2", "3", "4", "5", "6", "7", "8", "9"}

\* Number(digits) for a non-empty run of decimal digits
RECURSIVE ToNumber(_)
ToNumber(s) ==
  IF s = <<>> THEN 0
  ELSE 10 * ToNumber(SubSeq(s, 1, Len(s) - 1)) + (Code(s[Len(s)]) - 48)

\* slice with the end index taken as inclusive
SliceToInclusive(s, end) ==
  SubSeq(s, 1, IF end + 1 < Len(s) THEN end + 1 ELSE Len(s))

\* slice that keeps the last `end` elements instead of the first
SliceFromEnd(s, end) ==
  LET k == IF end < 0 THEN 0 ELSE (IF end < Len(s) THEN end ELSE Len(s))
  IN  SubSeq(s, Len(s) - k + 1, Len(s))

\* Array.prototype.slice(0, end)
SliceTo(s, end) ==
  LET k == IF end < 0
           THEN (IF Len(s) + end < 0 THEN 0 ELSE Len(s) + end)
           ELSE (IF end < Len(s) THEN end ELSE Len(s))
  IN  SubSeq(s, 1, k)

(***************************************************************************)
(* Inputs: the configuration document and the remote platform              *)
(***************************************************************************)
\* repo-list entries: "a/b", " A/b" followed by a carriage return (untrimmed,
\* other case), "a/b/c" and "b" (no name)
RepoAB == <<"a", "/", "b">>
RepoSpAB == <<" ", "A", "/", "b", "\r">>
RepoABC == <<"a", "/", "b", "/", "c">>
RepoB == <<"b">>

\* author handles: "u", " @u", and "@" (empty once normalised)
UserU == <<"u">>
UserSpAtU == <<" ", "@", "u">>
UserAt == <<"@">>

\* the canonical resource identifier the search endpoint gives an item
IssueUrl(owner, repo, digits) ==
  <<"x", "/", "r", "e", "p", "o", "s", "/">> \o owner \o <<"/">> \o repo
    \o <<"/", "i", "s", "s", "u", "e", "s", "/">> \o digits

\* a locator without the /issues/{number} suffix
BadUrl == <<"x", "/", "r", "e", "p", "o", "s", "/", "a", "/", "b">>

\* what one search (all its pages, concatenated) may return: items are
\* locators; the empty locator stands for a null item or one without url
SearchResults ==
  { <<>>,
    <<IssueUrl(<<"a">>, <<"b">>, <<"2">>), IssueUrl(<<"c">>, <<"a">>, <<"4", "2">>)>>,
    <<BadUrl, <<>>, IssueUrl(<<"a">>, <<"b">>, <<"1">>)>> }

\* what one listing page may hold: PR numbers, 0 for an item that is null
\* or has no number
ListingPages == {<<>>, <<2, 1>>, <<0, 2>>}

\* statuses a detail fetch may end with
DetailStatuses == {200, NotFound, 500}

\* statuses a failing listing or search request may end with
ErrorStatuses == {NotFound, 500}

\* a cap as the document gives it: {} when absent, {n} when set
CapValues == {{}} \cup {{n} : n \in (0 - 1)..MaxCap}

\* the platform resolves owner and repository names without regard to case
Lower(c) == IF c = "A" THEN "a" ELSE c
LowerStr(s) == [i \in 1..Len(s) |-> Lower(s[i])]

TickMs == MsPerDay \div 2
Now0 == 4 * MsPerDay + TickMs

\* creation time of the platform's pull requests: a/b#1 is three days old
\* at the start of the run, a/b#2 one day, every other one four days
CreatedAt(o, r, n) ==
  IF o = <<"a">> /\ r = <<"b">>
  THEN (IF n = 1 THEN MsPerDay ELSE 3 * MsPerDay)
  ELSE 0

\* the detail record pulls.get returns for a request
DetailData(owner, repo, number) ==
  LET o == LowerStr(owner)
      r == LowerStr(repo)
  IN  [ html_url   |-> <<o, r, number>>,
        number     |-> number,
        title      |-> IF number = 1 THEN "one" ELSE "two",
        login      |-> IF number = 2 THEN "" ELSE "dev",
        created_at |-> CreatedAt(o, r, number),
        additions  |-> IF number = 2 THEN {} ELSE {7},
        deletions  |-> IF number = 2 THEN {} ELSE {3},
        draft      |-> number = 1 ]

(***************************************************************************)
(* State                                                                   *)
(***************************************************************************)
VARIABLES
  src,           \* the config source: path, whether the file exists, its content
  cfg,           \* the parsed document
  pc,            \* position of the run
  now,           \* Date.now()
  prMap,         \* the merge map, in insertion order
  ri,            \* index of the repo-list entry being processed
  pageNo,        \* pages requested so far for this entry
  page,          \* items of the page being processed
  pi,            \* index of the next item of the page
  more,          \* the listing has a further page
  ui,            \* index of the author being processed
  results,       \* what the search returned for this author
  si,            \* index of the next search item
  teamOwned,
  teamNonOwned,
  output,        \* values passed to core.setOutput("slack_text", ...)
  failed,        \* messages passed to core.setFailed
  thrown,        \* the exception the run rejected with, "" if none
  lastCall,      \* the remote call the last step issued, kind "none" if none
  fetched,       \* history: <<identity, path>> of every successful detail fetch
  notFound,      \* history: some detail fetch ended not-found
  userGets,      \* history: detail fetches issued for the current author
  writer         \* history: <<identity, path, index>> of the call that wrote
                 \* the stored record: the loop and its list index

vars == <<src, cfg, pc, now, prMap, ri, pageNo, page, pi, more, ui, results, si,
          teamOwned, teamNonOwned, output, failed, thrown, lastCall,
          fetched, notFound, userGets, writer>>

NoCall == [kind |-> "none", a |-> <<>>, b |-> <<>>, n |-> 0, status |-> 0]
Call(kind, a, b, n, status) ==
  [kind |-> kind, a |-> a, b |-> b, n |-> n, status |-> status]

(***************************************************************************)
(* Configuration (lines 24-30)                                             *)
(***************************************************************************)
Coalesce(c, d) == IF c = {} THEN d ELSE CHOOSE n \in c : TRUE

org == cfg.org
repos == IF cfg.repos.isArray THEN cfg.repos.items ELSE <<>>
users == IF cfg.users.isArray THEN cfg.users.items ELSE <<>>
MAX_PRS_PER_REPO == Coalesce(cfg.max_prs_per_repo, DefaultMaxPrsPerRepo)
MAX_TOTAL_PRS == Coalesce(cfg.max_total_prs, DefaultMaxTotalPrs)
MAX_SEARCH_RESULTS_PER_USER ==
  Coalesce(cfg.max_search_results_per_user, DefaultMaxSearchResultsPerUser)

\* Math.floor((Date.now() - new Date(iso)) / 86400000)
daysOpen(created, t) == (t - created) \div MsPerDay

Months == <<"Jan", "Feb", "Mar", "Apr", "May", "Jun",
            "Jul", "Aug", "Sep", "Oct", "Nov", "Dec">>

\* prettyDate of the ISO date <<y, m, d>>
prettyDate(iso) == <<Months[iso[2]], iso[3], iso[1]>>

\* new Date().toISOString().slice(0, 10), for the days the model's clock covers
IsoDate(t) == <<1970, 1, (t \div MsPerDay) + 1>>

(***************************************************************************)
(* The merge map (lines 52-77)                                             *)
(***************************************************************************)
MapSize(m) == Len(m)
MapKeys(m) == {m[i].url : i \in 1..Len(m)}

\* a list that is pushed to, where the code keeps a map
MapSetAppend(m, key, rec) == Append(m, rec)

\* Map.prototype.set: replace in place under an existing key, else append
MapSet(m, key, rec) ==
  IF \E i \in 1..Len(m) : m[i].url = key
  THEN [i \in 1..Len(m) |-> IF m[i].url = key THEN rec ELSE m[i]]
  ELSE Append(m, rec)

\* the record addPR builds (lines 62-72)
MkRecord(owner, repo, data, t) ==
  [ repo      |-> owner \o <<"/">> \o repo,
    number    |-> data.number,
    title     |-> data.title,
    url       |-> data.html_url,
    author    |-> IF data.login = "" THEN "unknown" ELSE data.login,
    days      |-> daysOpen(data.created_at, t),
    additions |-> Coalesce(data.additions, 0),
    deletions |-> Coalesce(data.deletions, 0),
    draft     |-> data.draft ]

(***************************************************************************)
(* Initial states: a config source and document, nothing fetched           *)
(***************************************************************************)
Source(path, exists, json) == [path |-> path, exists |-> exists, json |-> json]

\* PR_DIGEST_CONFIG unset; file missing; not JSON; the JSON value null
BadSources ==
  { Source(<<>>, FALSE, "invalid"),
    Source(<<"p">>, FALSE, "invalid"),
    Source(<<"p">>, TRUE, "invalid"),
    Source(<<"p">>, TRUE, "null") }
GoodSource == Source(<<"p">>, TRUE, "object")

List(isArray, items) == [isArray |-> isArray, items |-> items]

Doc(o, rs, us, perRepo, total, perUser) ==
  [ org |-> o, repos |-> rs, users |-> us,
    max_prs_per_repo |-> perRepo,
    max_total_prs |-> total,
    max_search_results_per_user |-> perUser ]

EmptyDoc == Doc(<<>>, List(FALSE, <<>>), List(FALSE, <<>>), {}, {}, {})

\* cfg.repos and cfg.users: arrays, or a value that is no array
RepoLists ==
  { List(TRUE, l) : l \in { <<>>, <<RepoAB>>, <<RepoSpAB>>, <<RepoABC>>,
                            <<RepoB, RepoAB>>, <<RepoAB, RepoSpAB>> } }
    \cup {List(FALSE, <<RepoAB>>)}
UserLists ==
  { List(TRUE, l) : l \in {<<>>, <<UserU>>, <<UserAt, UserSpAtU>>, <<UserU, UserSpAtU>>} }
    \cup {List(FALSE, <<UserU>>)}

\* the three caps: one of them set and the others absent, or all three alike
CapTriples ==
  {<<c, {}, {}>> : c \in CapValues} \cup {<<{}, c, {}>> : c \in CapValues}
    \cup {<<{}, {}, c>> : c \in CapValues} \cup {<<c, c, c>> : c \in CapValues}

\* documents with an org: every pair of lists with the caps absent, and every
\* cap triple with the lists that fill both sections; documents without org
Docs ==
  { Doc(<<"o">>, rs, us, {}, {}, {}) : rs \in RepoLists, us \in UserLists }
    \cup { Doc(<<"o">>, List(TRUE, rs), List(TRUE, us), c[1], c[2], c[3]) :
              rs \in {<<RepoAB>>, <<RepoAB, RepoSpAB>>},
              us \in {<<>>, <<UserU>>},
              c \in CapTriples }
    \cup { Doc(<<>>, rs, us, {}, {}, {}) :
              rs \in {List(TRUE, <<>>), List(TRUE, <<RepoAB>>)},
              us \in {List(TRUE, <<>>), List(TRUE, <<UserU>>)} }

Init ==
  /\ \/ src \in BadSources /\ cfg = EmptyDoc
     \/ src = GoodSource /\ cfg \in Docs
  /\ pc = "start"
  /\ now = Now0
  /\ prMap = <<>>
  /\ ri = 1
  /\ pageNo = 0
  /\ page = <<>>
  /\ pi = 1
  /\ more = FALSE
  /\ ui = 1
  /\ results = <<>>
  /\ si = 1
  /\ teamOwned = <<>>
  /\ teamNonOwned = <<>>
  /\ output = <<>>
  /\ failed = <<>>
  /\ thrown = ""
  /\ lastCall = NoCall
  /\ fetched = {}
  /\ notFound = FALSE
  /\ userGets = 0
  /\ writer = {}

loopVars == <<ri, pageNo, page, pi, more, ui, results, si>>
histVars == <<fetched, notFound, userGets, writer>>
endVars == <<teamOwned, teamNonOwned, output>>

(***************************************************************************)
(* Config validation (lines 4-40)                                          *)
(***************************************************************************)
\* setFailed without the return that follows it
SetFailedNoReturn(msg) ==
  /\ failed' = Append(failed, msg)
  /\ pc' = "repos"
  /\ thrown' = thrown

SetFailed(msg) ==
  /\ failed' = Append(failed, msg)
  /\ pc' = "failed"
  /\ thrown' = thrown

Throw(e) ==
  /\ thrown' = e
  /\ pc' = "aborted"
  /\ failed' = failed

Start ==
  /\ pc = "start"
  /\ IF src.path = <<>> THEN SetFailed("missing-env")
     ELSE IF ~src.exists THEN SetFailed("file-not-found")
     ELSE IF src.json = "invalid" THEN SetFailed("invalid-json")
     ELSE IF src.json = "null" THEN Throw("TypeError")
     ELSE IF org = <<>> THEN SetFailed("missing-org")
     ELSE IF Len(repos) = 0 /\ Len(users) = 0 THEN SetFailed("no-repo-or-user")
     ELSE pc' = "repos" /\ failed' = failed /\ thrown' = thrown
  /\ lastCall' = NoCall
  /\ UNCHANGED <<src, cfg, now, prMap, loopVars, endVars, histVars>>

(***************************************************************************)
(* addPR (lines 54-77): one detail fetch and its outcome                   *)
(***************************************************************************)
\* a reading of the clock (Date.now() of line 43 after a fetch, new Date()
\* of line 194): the clock may have moved on since the last reading
Clock == {t \in {now, now + TickMs} : t <= Now0 + MaxTicks * TickMs}

\* a catch that swallows every error
catchSwallow(status) == IF status = 200 THEN "set" ELSE "return"

\* a catch that rethrows a not-found like any other failure
catchRethrow(status) == IF status = 200 THEN "set" ELSE "throw"

\* lines 73-76: what becomes of the fetch
catch(status) ==
  IF status = 200 THEN "set"
  ELSE IF status = NotFound THEN "return"
  ELSE "throw"

\* `next` is where the calling loop goes on; `path` names the calling loop
addPR(owner, repo, number, next, path) ==
  \E status \in DetailStatuses :
    /\ lastCall' = Call("get", owner, repo, number, status)
    /\ userGets' = IF path = "search" THEN userGets + 1 ELSE userGets
    /\ \/ /\ catch(status) = "set"
          /\ \E t \in Clock :
               /\ now' = t
               /\ prMap' = MapSet(prMap, DetailData(owner, repo, number).html_url,
                                  MkRecord(owner, repo,
                                           DetailData(owner, repo, number), t))
          /\ fetched' =
               fetched \cup {<<DetailData(owner, repo, number).html_url, path>>}
          /\ writer' =
               {w \in writer : w[1] # DetailData(owner, repo, number).html_url}
                 \cup {<<DetailData(owner, repo, number).html_url, path,
                         IF path = "list" THEN ri ELSE ui>>}
          /\ pc' = next
          /\ UNCHANGED <<thrown, notFound>>
       \/ /\ catch(status) = "return"
          /\ pc' = next
          /\ notFound' = TRUE
          /\ UNCHANGED <<now, prMap, thrown, fetched, writer>>
       \/ /\ catch(status) = "throw"
          /\ pc' = "aborted"
          /\ thrown' = "HttpError"
          /\ UNCHANGED <<now, prMap, fetched, notFound, writer>>

(***************************************************************************)
(* Direct repo listing (lines 79-100)                                      *)
(***************************************************************************)
parts == Split(Trim(repos[ri]))
owner == Part(parts, 1)
repo == Part(parts, 2)

\* lines 79-85: the head of the loop over repos
RepoNext ==
  /\ pc = "repos"
  /\ IF ri > Len(repos) \/ MapSize(prMap) >= MAX_TOTAL_PRS
     THEN pc' = "users" /\ UNCHANGED <<ri, pageNo>>
     ELSE IF owner = <<>> \/ repo = <<>>
     THEN pc' = pc /\ ri' = ri + 1 /\ UNCHANGED pageNo
     ELSE pc' = "page" /\ pageNo' = 0 /\ UNCHANGED ri
  /\ lastCall' = NoCall
  /\ UNCHANGED <<src, cfg, now, prMap, page, pi, more, ui, results, si,
                 endVars, failed, thrown, histVars>>

\* lines 87-91: the iterator requests the next page of the listing
ListPage ==
  /\ pc = "page"
  /\ pageNo' = pageNo + 1
  /\ \/ /\ \E status \in ErrorStatuses :
             lastCall' = Call("list", owner, repo, pageNo + 1, status)
        /\ pc' = "aborted"
        /\ thrown' = "HttpError"
        /\ UNCHANGED <<page, pi, more>>
     \/ \E data \in ListingPages, hasNext \in BOOLEAN :
          /\ hasNext => pageNo + 1 < MaxPages
          /\ lastCall' = Call("list", owner, repo, pageNo + 1, 200)
          /\ page' = data
          /\ pi' = 1
          /\ more' = hasNext
          /\ pc' = "items"
          /\ thrown' = thrown
  /\ UNCHANGED <<src, cfg, now, prMap, ri, ui, results, si, endVars, failed,
                 histVars>>

\* lines 93-97: one item of the page
ListItem ==
  /\ pc = "items"
  /\ pi <= Len(page)
  /\ MapSize(prMap) < MAX_TOTAL_PRS
  /\ pi' = pi + 1
  /\ IF page[pi] = 0
     THEN /\ lastCall' = NoCall
          /\ UNCHANGED <<pc, now, prMap, thrown, histVars>>
     ELSE addPR(owner, repo, page[pi], "items", "list")
  /\ UNCHANGED <<src, cfg, ri, pageNo, page, more, ui, results, si,
                 endVars, failed>>

\* the loop over the page ends (exhausted, or break at line 94): on to the
\* next page if the listing has one, else to the next repo
PageEnd ==
  /\ pc = "items"
  /\ pi > Len(page) \/ MapSize(prMap) >= MAX_TOTAL_PRS
  /\ IF more
     THEN pc' = "page" /\ UNCHANGED <<ri, pageNo, more>>
     ELSE pc' = "repos" /\ ri' = ri + 1 /\ pageNo' = 0 /\ more' = FALSE
  /\ page' = <<>>
  /\ pi' = 1
  /\ lastCall' = NoCall
  /\ UNCHANGED <<src, cfg, now, prMap, ui, results, si,
                 endVars, failed, thrown, histVars>>

(***************************************************************************)
(* Author search (lines 102-131)                                           *)
(***************************************************************************)
\* the handle used as given, a leading @ included
StripAtNone(s) == s

\* String.prototype.replace(/^@/, "")
StripAt(s) == IF s # <<>> /\ Head(s) = "@" THEN Tail(s) ELSE s

user == StripAt(Trim(users[ui]))

\* url.match(/\/repos\/([^/]+)\/([^/]+)\/issues\/(\d+)$/): the captured
\* <<owner, repo, digits>>, or <<>> when the locator does not match
Match(url) ==
  LET segs == Split(url)
      n == Len(segs)
  IN  IF /\ n >= 6
         /\ segs[n - 4] = <<"r", "e", "p", "o", "s">>
         /\ segs[n - 3] # <<>>
         /\ segs[n - 2] # <<>>
         /\ segs[n - 1] = <<"i", "s", "s", "u", "e", "s">>
         /\ segs[n] # <<>>
         /\ \A i \in 1..Len(segs[n]) : segs[n][i] \in Digits
      THEN <<segs[n - 3], segs[n - 2], segs[n]>>
      ELSE <<>>

\* lines 102-106: the head of the loop over users
UserNext ==
  /\ pc = "users"
  /\ IF ui > Len(users) \/ MapSize(prMap) >= MAX_TOTAL_PRS
     THEN pc' = "classify" /\ UNCHANGED ui
     ELSE IF user = <<>>
     THEN pc' = pc /\ ui' = ui + 1
     ELSE pc' = "search" /\ UNCHANGED ui
  /\ lastCall' = NoCall
  /\ UNCHANGED <<src, cfg, now, prMap, ri, pageNo, page, pi, more, results, si,
                 endVars, failed, thrown, histVars>>

\* lines 108-114: the paginated search for one author
Search ==
  /\ pc = "search"
  /\ \/ /\ \E status \in ErrorStatuses :
             lastCall' = Call("search", org, user, 0, status)
        /\ pc' = "aborted"
        /\ thrown' = "HttpError"
        /\ UNCHANGED <<results, si>>
     \/ \E items \in SearchResults :
          /\ lastCall' = Call("search", org, user, 0, 200)
          /\ results' = items
          /\ si' = 1
          /\ pc' = "results"
          /\ thrown' = thrown
  /\ UNCHANGED <<src, cfg, now, prMap, ri, pageNo, page, pi, more, ui,
                 endVars, failed, histVars>>

\* the loop of line 116 over every result, without the slice
consideredAll == results

\* the loop of line 116 running over the slice from its end
consideredReversed ==
  LET s == SliceTo(results, MAX_SEARCH_RESULTS_PER_USER)
  IN  [i \in 1..Len(s) |-> s[Len(s) + 1 - i]]

\* the items the loop of line 116 runs over
considered == SliceTo(results, MAX_SEARCH_RESULTS_PER_USER)

\* lines 116-130: one search item
SearchItem ==
  /\ pc = "results"
  /\ si <= Len(considered)
  /\ si' = si + 1
  /\ LET m == Match(considered[si])
     IN  IF m = <<>>
         THEN /\ lastCall' = NoCall
              /\ UNCHANGED <<pc, now, prMap, thrown, histVars>>
         ELSE addPR(m[1], m[2], ToNumber(m[3]), "results", "search")
  /\ UNCHANGED <<src, cfg, ri, pageNo, page, pi, more, ui, results,
                 endVars, failed>>

\* the loop over the search items ends: on to the next author
ResultsEnd ==
  /\ pc = "results"
  /\ si > Len(considered)
  /\ ui' = ui + 1
  /\ results' = <<>>
  /\ si' = 1
  /\ pc' = "users"
  /\ lastCall' = NoCall
  /\ userGets' = 0
  /\ UNCHANGED <<src, cfg, now, prMap, ri, pageNo, page, pi, more,
                 endVars, failed, thrown, fetched, notFound, writer>>

(***************************************************************************)
(* Classification (lines 133-143)                                          *)
(***************************************************************************)
\* the set of the entries as written, untrimmed
teamRepoSetRaw == {repos[i] : i \in 1..Len(repos)}

\* line 133
teamRepoSet == {Trim(repos[i]) : i \in 1..Len(repos)}

\* a membership test that ignores case
IsOwnedAnyCase(pr) == LowerStr(pr.repo) \in {LowerStr(r) : r \in teamRepoSet}

IsOwned(pr) == pr.repo \in teamRepoSet

OwnedOf(m) == SelectSeq(m, IsOwned)

\* a second push that is not under the else
NonOwnedAll(m) == m

NonOwnedOf(m) == SelectSeq(m, LAMBDA pr : ~IsOwned(pr))

Classify ==
  /\ pc = "classify"
  /\ teamOwned' = OwnedOf(prMap)
  /\ teamNonOwned' = NonOwnedOf(prMap)
  /\ pc' = "render"
  /\ lastCall' = NoCall
  /\ UNCHANGED <<src, cfg, now, prMap, loopVars, output, failed, thrown,
                 histVars>>

(***************************************************************************)
(* Rendering (lines 145-202)                                               *)
(***************************************************************************)
NoPR == MkRecord(<<>>, <<>>, DetailData(<<>>, <<>>, 0), 0)

Line(t, text, r, count, pr) ==
  [t |-> t, text |-> text, repo |-> r, count |-> count, pr |-> pr]
Blank == Line("blank", "", <<>>, 0, NoPR)
Separator == Line("separator", "", <<>>, 0, NoPR)

\* prs.sort((a, b) => b.days - a.days): stable, descending by days
RECURSIVE InsertByDays(_, _)
InsertByDays(sorted, pr) ==
  IF sorted = <<>> THEN <<pr>>
  ELSE IF Head(sorted).days >= pr.days
       THEN <<Head(sorted)>> \o InsertByDays(Tail(sorted), pr)
       ELSE <<pr>> \o sorted

RECURSIVE SortByDays(_)
SortByDays(prs) ==
  IF prs = <<>> THEN <<>>
  ELSE InsertByDays(SortByDays(SubSeq(prs, 1, Len(prs) - 1)), prs[Len(prs)])

\* the keys in descending order
RECURSIVE SortKeysDesc(_)
SortKeysDesc(keys) ==
  IF keys = {} THEN <<>>
  ELSE LET k == CHOOSE x \in keys : \A y \in keys \ {x} : StrLess(y, x)
       IN  <<k>> \o SortKeysDesc(keys \ {k})

\* Object.keys(byRepo).sort()
RECURSIVE SortKeys(_)
SortKeys(keys) ==
  IF keys = {} THEN <<>>
  ELSE LET k == CHOOSE x \in keys : \A y \in keys \ {x} : StrLess(x, y)
       IN  <<k>> \o SortKeys(keys \ {k})

\* byRepo[repo] (lines 162-166)
ByRepo(prs, r) == SelectSeq(prs, LAMBDA pr : pr.repo = r)

RECURSIVE PrLines(_)
PrLines(prs) ==
  IF prs = <<>> THEN <<>>
  ELSE << Line("pr", "", Head(prs).repo, 0, Head(prs)),
          Line("meta", "", Head(prs).repo, 0, Head(prs)),
          Blank >> \o PrLines(Tail(prs))

\* sub-headers that count the records shown instead of the records of the group
RECURSIVE GroupLinesShownCount(_, _)
GroupLinesShownCount(prs, keys) ==
  IF keys = <<>> THEN <<>>
  ELSE LET repoPRs == ByRepo(prs, Head(keys))
           shown == SliceTo(repoPRs, MAX_PRS_PER_REPO)
       IN  << Blank,
              Line("repo", "", Head(keys), Len(shown), NoPR),
              Blank >>
             \o PrLines(shown)
             \o GroupLinesShownCount(prs, Tail(keys))

\* lines 171-189
RECURSIVE GroupLines(_, _)
GroupLines(prs, keys) ==
  IF keys = <<>> THEN <<>>
  ELSE LET repoPRs == ByRepo(prs, Head(keys))
       IN  << Blank,
              Line("repo", "", Head(keys), Len(repoPRs), NoPR),
              Blank >>
             \o PrLines(SliceTo(repoPRs, MAX_PRS_PER_REPO))
             \o GroupLines(prs, Tail(keys))

\* a section without the early return of lines 154-158
renderSectionNoPlaceholder(title, prs) ==
  << Blank, Separator, Line("title", title, <<>>, 0, NoPR), Separator, Blank >>
    \o LET sorted == SortByDays(prs)
       IN  << Line("thead", "", <<>>, 0, NoPR), Blank >>
             \o GroupLines(sorted, SortKeys({sorted[i].repo : i \in 1..Len(sorted)}))

renderSection(title, prs) ==
  << Blank, Separator, Line("title", title, <<>>, 0, NoPR), Separator, Blank >>
    \o IF Len(prs) = 0
       THEN << Line("none", "", <<>>, 0, NoPR), Blank >>
       ELSE LET sorted == SortByDays(prs)
            IN  << Line("thead", "", <<>>, 0, NoPR), Blank >>
                  \o GroupLines(sorted, SortKeys({sorted[i].repo : i \in 1..Len(sorted)}))

\* lines 194-202; the sort of line 160 is in place, so it reorders the
\* classified arrays as well
Render ==
  /\ pc = "render"
  /\ teamOwned' = SortByDays(teamOwned)
  /\ teamNonOwned' = SortByDays(teamNonOwned)
  /\ \E t \in Clock :
       /\ now' = t
       /\ output' = Append(output,
            [ header |-> prettyDate(IsoDate(t)),
              owned |-> renderSection("owned", teamOwned),
              nonOwned |-> renderSection("non-owned", teamNonOwned) ])
  /\ pc' = "done"
  /\ lastCall' = NoCall
  /\ UNCHANGED <<src, cfg, prMap, loopVars, failed, thrown, histVars>>

Next ==
  \/ Start
  \/ RepoNext
  \/ ListPage
  \/ ListItem
  \/ PageEnd
  \/ UserNext
  \/ Search
  \/ SearchItem
  \/ ResultsEnd
  \/ Classify
  \/ Render

Spec == Init /\ [][Next]_vars

(***************************************************************************)
(* Properties                                                              *)
(***************************************************************************)
Occurs(seq, x) == Cardinality({i \in 1..Len(seq) : seq[i] = x})

Classified == pc \in {"render", "done"}

\* the lines of every section emitted so far
Sections ==
  {output[k].owned : k \in 1..Len(output)}
    \cup {output[k].nonOwned : k \in 1..Len(output)}

\* positions of the repository sub-headers of a section
RepoIdx(lines) == {i \in 1..Len(lines) : lines[i].t = "repo"}

\* positions of the record lines under the sub-header at i
PrAfter(lines, i) ==
  { j \in (i + 1)..Len(lines) :
      /\ lines[j].t = "pr"
      /\ \A k \in (i + 1)..j : lines[k].t # "repo" }

\* C1: in every reachable state the merge map holds at most max_total_prs
\* entries, whatever the lists, the non-negative caps and the responses
C1_TotalCapRespected ==
  MAX_TOTAL_PRS >= 0 => MapSize(prMap) <= MAX_TOTAL_PRS

\* C2: the output is emitted at most once, only at the end of a run that
\* reported no failure and threw nothing; a run that reports a failure or
\* aborts has emitted nothing
C2_AllOrNothing ==
  /\ Len(output) <= 1
  /\ output # <<>> => pc = "done" /\ failed = <<>> /\ thrown = ""
  /\ (failed # <<>> \/ thrown # "") => output = <<>>

C2_Witness ==
  /\ pc = "done"
  /\ Len(output) = 1
  /\ prMap # <<>>
  /\ notFound

\* C3: at every point the merge map has exactly one entry per identity
\* fetched so far, also for an identity fetched through both paths
C3_OneEntryPerIdentity ==
  /\ \A i, j \in 1..Len(prMap) : prMap[i].url = prMap[j].url => i = j
  /\ MapKeys(prMap) = {f[1] : f \in fetched}

C3_Witness ==
  /\ pc = "done"
  /\ \E u \in MapKeys(prMap) :
       <<u, "list">> \in fetched /\ <<u, "search">> \in fetched

\* C4: after classification every record of the merge map is in exactly one
\* of teamOwned and teamNonOwned, and the two sizes add up to the map's
C4_Partition ==
  Classified =>
    /\ \A i \in 1..Len(prMap) :
         Occurs(teamOwned, prMap[i]) + Occurs(teamNonOwned, prMap[i]) = 1
    /\ Len(teamOwned) + Len(teamNonOwned) = Len(prMap)

C4_Witness ==
  /\ pc = "render"
  /\ teamOwned # <<>>
  /\ teamNonOwned # <<>>

\* t is e without its surrounding whitespace
IsTrimOf(t, e) ==
  \E i \in 1..(Len(e) + 1), j \in 0..Len(e) :
    /\ t = SubSeq(e, i, j)
    /\ \A k \in 1..(i - 1) : e[k] \in WhiteSpace
    /\ \A k \in (j + 1)..Len(e) : e[k] \in WhiteSpace
    /\ t # <<>> => t[1] \notin WhiteSpace /\ t[Len(t)] \notin WhiteSpace

InRepoList(r) == \E k \in 1..Len(repos) : IsTrimOf(r.repo, repos[k])

\* C5: a record is owned iff its repository identifier equals, character for
\* character, some trimmed entry of the repo list; otherwise it is non-owned
C5_OwnedIffListed ==
  Classified =>
    \A i \in 1..Len(prMap) :
      /\ InRepoList(prMap[i]) <=> Occurs(teamOwned, prMap[i]) > 0
      /\ ~InRepoList(prMap[i]) <=> Occurs(teamNonOwned, prMap[i]) > 0

\* an owned record of an untrimmed entry, and a non-owned one that differs
\* from an entry by case alone
C5_Witness ==
  /\ pc = "render"
  /\ \E i \in 1..Len(teamOwned), k \in 1..Len(repos) :
       teamOwned[i].repo # repos[k] /\ IsTrimOf(teamOwned[i].repo, repos[k])
  /\ \E i \in 1..Len(teamNonOwned), k \in 1..Len(repos) :
       LowerStr(teamNonOwned[i].repo) = LowerStr(Trim(repos[k]))

\* the configuration inputs C6 is about
ConfigError ==
  \/ src.path = <<>>
  \/ ~src.exists
  \/ src.json = "invalid"
  \/ src.json = "null" \/ cfg.org = <<>>
  \/ Len(repos) = 0 /\ Len(users) = 0

\* C6: on a configuration error the run reports one failure through
\* setFailed, stops, issues no remote call and emits nothing
C6_ConfigErrorReported ==
  (ConfigError /\ pc # "start") =>
    /\ pc = "failed"
    /\ Len(failed) = 1
    /\ thrown = ""
    /\ lastCall = NoCall
    /\ fetched = {}
    /\ output = <<>>

\* C7: a detail fetch that ends not-found, on either path, inserts nothing
\* and leaves the merge map as it was, fails nothing, and the loop goes on
\* with its next item
C7_NotFoundSkips ==
  [][ (lastCall'.kind = "get" /\ lastCall'.status = NotFound) =>
        /\ prMap' = prMap /\ fetched' = fetched
        /\ thrown' = "" /\ failed' = <<>>
        /\ \/ pc = "items" /\ pc' = "items" /\ pi' = pi + 1
           \/ pc = "results" /\ pc' = "results" /\ si' = si + 1 ]_vars

\* the first item of a page ended not-found and the second one was fetched
C7_Witness ==
  /\ notFound
  /\ pc = "items" /\ ri = 1 /\ pageNo = 1 /\ pi = 3
  /\ page[1] # 0
  /\ lastCall.kind = "get" /\ lastCall.status = 200
  /\ Len(prMap) = 1

FatalCall(c) ==
  /\ c.kind # "none"
  /\ c.status # 200
  /\ ~(c.kind = "get" /\ c.status = NotFound)

\* C8: any failing remote call other than a not-found detail fetch aborts
\* the run: the exception propagates, nothing more is issued or emitted
C8_FailureAborts ==
  /\ [][ FatalCall(lastCall') =>
           pc' = "aborted" /\ thrown' # "" /\ prMap' = prMap ]_vars
  /\ [](pc = "aborted" =>
          /\ ~ENABLED Next
          /\ output = <<>> /\ teamOwned = <<>> /\ teamNonOwned = <<>>)

\* a listing that fails not-found after a record was fetched
C8_Witness ==
  /\ pc = "aborted"
  /\ lastCall.kind = "list" /\ lastCall.status = NotFound
  /\ prMap # <<>>

SectionOrdered(lines) ==
  /\ \A i, j \in RepoIdx(lines) :
       i < j => StrLess(lines[i].repo, lines[j].repo)
  /\ \A i \in RepoIdx(lines) :
       \A j, k \in PrAfter(lines, i) :
         j < k => lines[j].pr.days >= lines[k].pr.days

\* C9: in every rendered section the repository groups are in ascending
\* lexicographic order, whatever the ages, and the records of a group are in
\* non-increasing order of age
C9_RenderOrder == \A lines \in Sections : SectionOrdered(lines)

\* a section whose first group is younger than its second, with a group of
\* two records that were fetched younger first
C9_Witness ==
  /\ pc = "done"
  /\ \E lines \in Sections :
       /\ \E i, j \in RepoIdx(lines) :
            /\ i < j
            /\ \A a \in PrAfter(lines, i), b \in PrAfter(lines, j) :
                 lines[a].pr.days < lines[b].pr.days
            /\ PrAfter(lines, i) # {} /\ PrAfter(lines, j) # {}
       /\ \E i \in RepoIdx(lines) :
            \E j, k \in PrAfter(lines, i) :
              j < k /\ lines[j].pr.days > lines[k].pr.days
  /\ \E a, b \in 1..Len(prMap) :
       a < b /\ prMap[a].repo = prMap[b].repo /\ prMap[a].days < prMap[b].days

GroupsWithin(lines, cap) ==
  \A i \in RepoIdx(lines) : Cardinality(PrAfter(lines, i)) <= cap

\* C10 as stated: for any configured max_prs_per_repo, no group renders more
\* records than that
C10_GroupCapAnyValue ==
  \A lines \in Sections : GroupsWithin(lines, MAX_PRS_PER_REPO)

\* C10: for any non-negative max_prs_per_repo, no group renders more
\* records than that
C10_GroupCapNonNegative ==
  MAX_PRS_PER_REPO >= 0 =>
    \A lines \in Sections : GroupsWithin(lines, MAX_PRS_PER_REPO)

\* a group larger than the cap, rendered up to the cap
C10_Witness ==
  /\ pc = "done"
  /\ MAX_PRS_PER_REPO >= 0
  /\ \E lines \in Sections :
       \E i \in RepoIdx(lines) :
         /\ lines[i].count > MAX_PRS_PER_REPO
         /\ Cardinality(PrAfter(lines, i)) = MAX_PRS_PER_REPO
         /\ MAX_PRS_PER_REPO > 0

(***************************************************************************)
(* C11: per-author search cap                                              *)
(***************************************************************************)
\* C11 as stated, for whatever max_search_results_per_user the config gives:
\* the number of search items examined for the current author, and the
\* number of detail fetches issued for that author, never exceed the cap
C11_SearchCapAnyValue ==
  si > 1 =>
    /\ si - 1 <= MAX_SEARCH_RESULTS_PER_USER
    /\ userGets <= MAX_SEARCH_RESULTS_PER_USER

\* C11 for a non-negative max_search_results_per_user: for every author, the
\* number of search items examined and the number of detail fetches issued
\* never exceed the cap, however many items the search returned
C11_SearchCapNonNegative ==
  MAX_SEARCH_RESULTS_PER_USER >= 0 =>
    /\ si - 1 <= MAX_SEARCH_RESULTS_PER_USER
    /\ userGets <= MAX_SEARCH_RESULTS_PER_USER
    /\ userGets <= si - 1

\* the search returned more items than the cap, and the loop has examined as
\* many as the cap allows, each with a detail fetch
C11_Witness ==
  /\ pc = "results"
  /\ MAX_SEARCH_RESULTS_PER_USER >= 1
  /\ Len(results) > MAX_SEARCH_RESULTS_PER_USER
  /\ si - 1 = MAX_SEARCH_RESULTS_PER_USER
  /\ userGets = MAX_SEARCH_RESULTS_PER_USER

(***************************************************************************)
(* C12: empty-section rendering                                            *)
(***************************************************************************)
\* the kinds of the lines of a section, in order
Kinds(lines) == [i \in 1..Len(lines) |-> lines[i].t]

HeaderBlock == <<"blank", "separator", "title", "separator", "blank">>

\* the sections emitted, each with the records it was rendered from
SectionsWithRecords ==
  IF pc = "done"
  THEN {<<output[1].owned, teamOwned>>, <<output[1].nonOwned, teamNonOwned>>}
  ELSE {}

\* C12: a section rendered from zero records is the header block, then the
\* placeholder line, then nothing but an empty line: no table header, no
\* repository sub-header, no record line; a section rendered from at least
\* one record starts with the same header block and has no placeholder line
C12_EmptySection ==
  \A sec \in SectionsWithRecords :
    /\ SubSeq(Kinds(sec[1]), 1, 5) = HeaderBlock
    /\ Len(sec[2]) = 0 => Kinds(sec[1]) = HeaderBlock \o <<"none", "blank">>
    /\ Len(sec[2]) > 0 => \A i \in 1..Len(sec[1]) : sec[1][i].t # "none"

\* a digest with an empty owned section next to a non-empty non-owned one
C12_Witness ==
  /\ pc = "done"
  /\ teamOwned = <<>>
  /\ teamNonOwned # <<>>
  /\ \E i \in 1..Len(output[1].owned) : output[1].owned[i].t = "none"
  /\ \E i \in 1..Len(output[1].nonOwned) : output[1].nonOwned[i].t = "pr"

(***************************************************************************)
(* C13: order of the remote calls                                          *)
(***************************************************************************)
\* the part of the run a position belongs to: 1 the loop over repos, 2 the
\* loop over users, 3 what follows them
Stage(p) ==
  CASE p = "start" -> 0
    [] p \in {"repos", "page", "items"} -> 1
    [] p \in {"users", "search", "results"} -> 2
    [] OTHER -> 3

\* the search item is the locator of the pull request the call asks for
LocatorOf(item, call) ==
  \E d \in {<<c>> : c \in Digits} \cup {<<c, e>> : c, e \in Digits} :
    item = IssueUrl(call.a, call.b, d) /\ ToNumber(d) = call.n

\* C13: every step issues at most one remote call and has its outcome before
\* the next step; the run never goes back from the loop over users to the
\* loop over repos, so every listing-path fetch precedes every search and
\* every search-path fetch; repos are taken in list order, pages of a repo in
\* page order, items of a page in page order, each listing-path fetch being
\* for the item at the current position; authors are taken in list order and
\* each search-path fetch is for the search result at the current position;
\* a record first inserted takes the last place of the merge map, and only a
\* successful detail fetch inserts
C13_CallOrder ==
  [][ /\ Stage(pc') >= Stage(pc)
      /\ ri' >= ri
      /\ ri' = ri /\ Stage(pc') = 1 => pageNo' >= pageNo
      /\ ri' = ri /\ pageNo' = pageNo /\ pc' = "items" => pi' >= pi
      /\ ui' >= ui
      /\ ui' = ui /\ pc = "results" /\ pc' = "results" =>
            results' = results /\ si' >= si
      /\ lastCall'.kind # "none" => Stage(pc) \in {1, 2}
      /\ lastCall'.kind = "list" =>
            /\ Stage(pc) = 1 /\ ri' = ri /\ ri <= Len(repos)
            /\ lastCall'.a = Part(Split(Trim(repos[ri])), 1)
            /\ lastCall'.b = Part(Split(Trim(repos[ri])), 2)
            /\ lastCall'.n = pageNo + 1 /\ pageNo' = pageNo + 1
      /\ lastCall'.kind = "get" /\ Stage(pc) = 1 =>
            /\ ri' = ri /\ pageNo' = pageNo /\ page' = page /\ pi' = pi + 1
            /\ lastCall'.a = Part(Split(Trim(repos[ri])), 1)
            /\ lastCall'.b = Part(Split(Trim(repos[ri])), 2)
            /\ lastCall'.n = page[pi]
      /\ lastCall'.kind = "search" =>
            /\ Stage(pc) = 2 /\ ui' = ui /\ ui <= Len(users)
            /\ \E h \in {<<>>, <<"@">>} :
                 IsTrimOf(h \o lastCall'.b, users[ui])
      /\ lastCall'.kind = "get" /\ Stage(pc) = 2 =>
            /\ ui' = ui /\ results' = results /\ si' = si + 1
            /\ LocatorOf(results[si], lastCall')
      /\ Len(prMap') \in {Len(prMap), Len(prMap) + 1}
      /\ \A i \in 1..Len(prMap) : prMap'[i].url = prMap[i].url
      /\ Len(prMap') > Len(prMap) =>
            lastCall'.kind = "get" /\ lastCall'.status = 200
    ]_vars

\* the second author's second search result has been fetched, after records
\* were fetched by the listing
C13_Witness ==
  /\ pc = "results"
  /\ lastCall.kind = "get"
  /\ ui = 2
  /\ si = 3
  /\ \E f \in fetched : f[2] = "list"
  /\ Len(prMap) >= 2

(***************************************************************************)
(* C14: short-circuit at the total cap                                     *)
(***************************************************************************)
\* C14: once the merge map holds max_total_prs entries, no step issues a
\* remote call any more: no listing page, no search, no detail fetch
C14_NoCallAfterCap ==
  [][MapSize(prMap) >= MAX_TOTAL_PRS => lastCall'.kind = "none"]_vars

\* C14, the listing part alone: once the merge map holds max_total_prs
\* entries, no further listing page is requested
C14_NoListingAfterCap ==
  [][MapSize(prMap) >= MAX_TOTAL_PRS => lastCall'.kind # "list"]_vars

(***************************************************************************)
(* C15: malformed items are skipped                                        *)
(***************************************************************************)
\* the entry, trimmed, starts with a non-empty owner, a "/", and a non-empty
\* name
HasOwnerAndName(e) ==
  \E t \in {SubSeq(e, i, j) : i \in 1..(Len(e) + 1), j \in 0..Len(e)} :
    /\ IsTrimOf(t, e)
    /\ \E i \in 2..(Len(t) - 1) :
         /\ t[i] = "/"
         /\ \A j \in 1..(i - 1) : t[j] # "/"
         /\ t[i + 1] # "/"

\* the handle is empty once trimmed and stripped of a leading @
EmptyHandle(h) == IsTrimOf(<<>>, h) \/ IsTrimOf(<<"@">>, h)

\* the step issues no remote call, leaves the merge map alone and reports no
\* error
Skips ==
  /\ lastCall'.kind = "none"
  /\ prMap' = prMap
  /\ thrown' = thrown
  /\ failed' = failed
  /\ pc' = pc

\* C15: a listing item without a number, a search item whose locator does not
\* match, a repo-list entry without owner or name and an author handle that
\* is empty once normalised are each passed over by a step that issues no
\* remote call, inserts nothing and raises no error, and the loop goes on
\* with the next item, repo or author
C15_MalformedSkipped ==
  [][ /\ (/\ pc = "items" /\ pi <= Len(page)
          /\ MapSize(prMap) < MAX_TOTAL_PRS /\ page[pi] = 0)
         => Skips /\ pi' = pi + 1 /\ page' = page /\ ri' = ri
      /\ (/\ pc = "results" /\ si <= Len(considered)
          /\ results[si] \in {BadUrl, <<>>})
         => Skips /\ si' = si + 1 /\ results' = results /\ ui' = ui
      /\ (/\ pc = "repos" /\ ri <= Len(repos)
          /\ MapSize(prMap) < MAX_TOTAL_PRS /\ ~HasOwnerAndName(repos[ri]))
         => Skips /\ ri' = ri + 1
      /\ (/\ pc = "users" /\ ui <= Len(users)
          /\ MapSize(prMap) < MAX_TOTAL_PRS /\ EmptyHandle(users[ui]))
         => Skips /\ ui' = ui + 1
    ]_vars

\* the first author handle was "@" and was passed over, and the search for
\* the second author has been issued; before that a repo-list entry without
\* name was passed over and the next entry was listed
C15_Witness ==
  /\ users # <<>> /\ users[1] = UserAt
  /\ ui = 2
  /\ lastCall.kind = "search"
  /\ repos # <<>> /\ repos[1] = RepoB
  /\ \E f \in fetched : f[2] = "list"

\* two search items that do not match were passed over and the third was
\* fetched, after the listing had fetched a record
C15_WitnessItems ==
  /\ pc = "results"
  /\ results # <<>> /\ results[1] = BadUrl
  /\ si = 4
  /\ lastCall.kind = "get" /\ lastCall.status = 200
  /\ \E f \in fetched : f[2] = "search"
  /\ \E f \in fetched : f[2] = "list"

(***************************************************************************)
(* C16: repository sub-headers                                             *)
(***************************************************************************)
\* how many of the records belong to repository r
GroupSize(prs, r) == Cardinality({i \in 1..Len(prs) : prs[i].repo = r})

\* C16: in every rendered section each repository with at least one record
\* of the section has exactly one sub-header, there is no other sub-header,
\* and the count a sub-header shows is the number of records of the section
\* in that repository, whatever max_prs_per_repo is
C16_SubHeaderCount ==
  \A sec \in SectionsWithRecords :
    /\ \A k \in 1..Len(sec[2]) :
         Cardinality({i \in RepoIdx(sec[1]) :
                        sec[1][i].repo = sec[2][k].repo}) = 1
    /\ \A i \in RepoIdx(sec[1]) :
         /\ GroupSize(sec[2], sec[1][i].repo) >= 1
         /\ sec[1][i].count = GroupSize(sec[2], sec[1][i].repo)

\* a group of two records under a cap of one: the sub-header says 2 and one
\* record is shown
C16_Witness ==
  /\ pc = "done"
  /\ MAX_PRS_PER_REPO = 1
  /\ \E i \in RepoIdx(output[1].owned) :
       /\ output[1].owned[i].count = 2
       /\ Cardinality(PrAfter(output[1].owned, i)) = 1

(***************************************************************************)
(* C17: records do not change once stored                                  *)
(***************************************************************************)
\* C17: no step changes a field of a stored record; in particular a detail
\* fetch that writes under an identity already in the merge map leaves the
\* record as it was (the remote detail record of an identity is the same
\* throughout the run)
C17_RecordsImmutable ==
  [][\A i \in 1..Len(prMap) : prMap'[i] = prMap[i]]_vars

\* C17, the repository identifier alone
C17_RepoImmutable ==
  [][\A i \in 1..Len(prMap) : prMap'[i].repo = prMap[i].repo]_vars

\* C17, the age alone
C17_AgeImmutable ==
  [][\A i \in 1..Len(prMap) : prMap'[i].days = prMap[i].days]_vars

\* C17, every field but the repository identifier and the age
C17_OtherFieldsImmutable ==
  [][\A i \in 1..Len(prMap) :
       /\ prMap'[i].number = prMap[i].number
       /\ prMap'[i].title = prMap[i].title
       /\ prMap'[i].url = prMap[i].url
       /\ prMap'[i].author = prMap[i].author
       /\ prMap'[i].additions = prMap[i].additions
       /\ prMap'[i].deletions = prMap[i].deletions
       /\ prMap'[i].draft = prMap[i].draft]_vars

(***************************************************************************)
(* C18: per-repository truncation                                          *)
(***************************************************************************)
\* the records of repository r, in the order of the section's array
GroupOf(prs, r) == SelectSeq(prs, LAMBDA pr : pr.repo = r)

\* the records shown under the sub-header at i, in the order of their lines
ShownUnder(lines, i) ==
  LET idx == PrAfter(lines, i)
  IN  [k \in 1..Cardinality(idx) |->
         lines[CHOOSE j \in idx : Cardinality({m \in idx : m <= j}) = k].pr]

Min(a, b) == IF a <= b THEN a ELSE b

\* the section's array is in descending age; under every sub-header exactly
\* min(n, cap) records are shown, the first of the group in that order; no
\* record left out is older than one shown; every record line stands under
\* the sub-header of its own repository and no record has two lines
TruncationKeepsOldest(lines, prs, cap) ==
  /\ \A a, b \in 1..Len(prs) : a < b => prs[a].days >= prs[b].days
  /\ \A i \in RepoIdx(lines) :
       LET g == GroupOf(prs, lines[i].repo)
           m == Min(Len(g), cap)
           shown == ShownUnder(lines, i)
       IN  /\ Len(shown) = m
           /\ shown = SubSeq(g, 1, m)
           /\ \A k \in 1..Len(g) :
                (\A j \in 1..Len(shown) : shown[j] # g[k]) =>
                  \A j \in 1..Len(shown) : g[k].days <= shown[j].days
           /\ \A j \in PrAfter(lines, i) : lines[j].pr.repo = lines[i].repo
  /\ \A j, k \in 1..Len(lines) :
       lines[j].t = "pr" /\ lines[k].t = "pr" /\ j # k =>
         lines[j].pr # lines[k].pr
  /\ \A j \in 1..Len(lines) :
       lines[j].t = "pr" => \E i \in RepoIdx(lines) : j \in PrAfter(lines, i)

\* C18 as stated, for whatever max_prs_per_repo the config gives
C18_TruncationAnyValue ==
  \A sec \in SectionsWithRecords :
    TruncationKeepsOldest(sec[1], sec[2], MAX_PRS_PER_REPO)

\* C18 for a non-negative max_prs_per_repo: of a group of n records exactly
\* min(n, cap) are shown, the first of the group in the section's descending
\* age order, so none left out is older than one shown, each under its own
\* repository and none twice
C18_TruncationNonNegative ==
  MAX_PRS_PER_REPO >= 0 =>
    \A sec \in SectionsWithRecords :
      TruncationKeepsOldest(sec[1], sec[2], MAX_PRS_PER_REPO)

\* a group of two records of different age under a cap of one: the older is
\* shown, the younger is left out
C18_Witness ==
  /\ pc = "done"
  /\ MAX_PRS_PER_REPO = 1
  /\ \E i \in RepoIdx(output[1].owned) :
       LET g == GroupOf(teamOwned, output[1].owned[i].repo)
       IN  /\ Len(g) = 2
           /\ g[1].days > g[2].days
           /\ ShownUnder(output[1].owned, i) = <<g[1]>>

(***************************************************************************)
(* C19: records of the listing path are owned                              *)
(***************************************************************************)
\* the call that wrote the stored record: <<identity, path, list index>>
WriterOf(r) == CHOOSE w \in writer : w[1] = r.url

\* the entry, trimmed, is a non-empty owner, one "/", and a non-empty name
ExactlyOwnerAndName(e) ==
  \E t \in {SubSeq(e, i, j) : i \in 1..(Len(e) + 1), j \in 0..Len(e)} :
    /\ IsTrimOf(t, e)
    /\ \E i \in 2..(Len(t) - 1) :
         /\ t[i] = "/"
         /\ \A j \in 1..Len(t) : j # i => t[j] # "/"

\* C19 as stated: a record whose stored version was written by the listing
\* of an entry the loop accepts is owned, and a non-owned record was fetched
\* by the author search only, for a repository that is not in the list
C19_ListedIsOwnedAnyEntry ==
  Classified =>
    \A i \in 1..Len(prMap) :
      /\ WriterOf(prMap[i])[2] = "list" => Occurs(teamOwned, prMap[i]) > 0
      /\ Occurs(teamNonOwned, prMap[i]) > 0 =>
           /\ <<prMap[i].url, "list">> \notin fetched
           /\ <<prMap[i].url, "search">> \in fetched
           /\ ~InRepoList(prMap[i])

\* C19 for entries that are exactly owner/name: a record whose stored version
\* was written by the listing of such an entry is owned; a non-owned record
\* was last written either by the author search, under a repository
\* identifier that equals no trimmed entry, or by the listing of an entry
\* with more than two parts
C19_ListedIsOwned ==
  Classified =>
    \A i \in 1..Len(prMap) :
      LET w == WriterOf(prMap[i])
      IN  /\ w[2] = "list" /\ ExactlyOwnerAndName(repos[w[3]]) =>
                Occurs(teamOwned, prMap[i]) > 0
          /\ Occurs(teamNonOwned, prMap[i]) > 0 =>
                \/ w[2] = "search" /\ ~InRepoList(prMap[i])
                \/ w[2] = "list" /\ ~ExactlyOwnerAndName(repos[w[3]])

\* the listing of an entry with surrounding space wrote a record that is
\* owned, next to a record the author search wrote that is non-owned
C19_Witness ==
  /\ pc = "done"
  /\ \E i \in 1..Len(teamOwned) :
       /\ WriterOf(teamOwned[i])[2] = "list"
       /\ repos[WriterOf(teamOwned[i])[3]] = RepoSpAB
  /\ \E i \in 1..Len(teamNonOwned) : WriterOf(teamNonOwned[i])[2] = "search"

(***************************************************************************)
(* C20: termination and the outcomes of a run                              *)
(***************************************************************************)
Terminal == pc \in {"failed", "aborted", "done"}

\* a configuration failure reported, no remote call made, nothing emitted
ConfigFailure ==
  /\ pc = "failed"
  /\ Len(failed) = 1
  /\ thrown = ""
  /\ lastCall = NoCall /\ fetched = {} /\ ~notFound /\ prMap = <<>>
  /\ output = <<>>

\* an abort by the failure of a remote call, nothing emitted
RemoteAbort ==
  /\ pc = "aborted"
  /\ thrown = "HttpError"
  /\ FatalCall(lastCall)
  /\ failed = <<>>
  /\ output = <<>>

\* one digest: the date header, the owned section, the non-owned section
DigestEmitted ==
  /\ pc = "done"
  /\ failed = <<>> /\ thrown = ""
  /\ Len(output) = 1
  /\ output[1].header = prettyDate(IsoDate(now))
  /\ Len(output[1].owned) >= 5 /\ output[1].owned[3].text = "owned"
  /\ Len(output[1].nonOwned) >= 5 /\ output[1].nonOwned[3].text = "non-owned"

\* C20, the outcomes: a run that has ended has ended in exactly one of a
\* reported configuration failure, an abort by a failed remote call, or one
\* emitted digest; a run that has not ended has reported and emitted nothing
C20_ThreeOutcomes ==
  /\ Terminal =>
       /\ ConfigFailure \/ RemoteAbort \/ DigestEmitted
       /\ ~(ConfigFailure /\ RemoteAbort)
       /\ ~(ConfigFailure /\ DigestEmitted)
       /\ ~(RemoteAbort /\ DigestEmitted)
  /\ ~Terminal => failed = <<>> /\ thrown = "" /\ output = <<>>

\* C20, the outcomes of the runs whose config file holds a JSON object
C20_ThreeOutcomesOfObjectConfig ==
  src.json # "null" => C20_ThreeOutcomes

\* once ended, a run takes no further step
C20_TerminalIsFinal == [][Terminal => pc' = pc]_vars

\* how far the run is: the part of the run, then the position in the loop
\* over repos (entry, page requests and pages, item), then the position in
\* the loop over users (author, search, item)
Position ==
  << CASE pc = "start" -> 0
       [] pc \in {"repos", "page", "items"} -> 1
       [] pc \in {"users", "search", "results"} -> 2
       [] pc = "classify" -> 3
       [] pc = "render" -> 4
       [] OTHER -> 5,
     ri,
     CASE pc = "page" -> 2 * pageNo + 1
       [] pc = "items" -> 2 * pageNo
       [] OTHER -> 0,
     pi,
     ui,
     CASE pc = "search" -> 1
       [] pc = "results" -> 2
       [] OTHER -> 0,
     si >>

\* lexicographic order on tuples of the same length
LexLess(a, b) ==
  \E k \in 1..Len(a) :
    /\ a[k] < b[k]
    /\ \A j \in 1..(k - 1) : a[j] = b[j]

\* C20, termination in finite-run form: every step moves the run strictly
\* forward, and the position is bounded by the lengths of the lists, of the
\* pages and of the search results and by the number of pages of a listing
C20_StepsAdvance ==
  /\ [][LexLess(Position, Position')]_vars
  /\ [](/\ ri \in 1..(Len(repos) + 1)
         /\ pageNo \in 0..MaxPages
         /\ pi \in 1..(Len(page) + 1)
         /\ ui \in 1..(Len(users) + 1)
         /\ si \in 1..(Len(results) + 1))

====
